---- MODULE Spec2Model ----
(***************************************************************************)
(* Attendance portal: App (roster, last scanned student, status message)   *)
(* and BarcodeScanner (camera session, image upload, decoder instance).    *)
(*                                                                         *)
(* One action is one browser task: a click handler, a promise              *)
(* continuation, a DOM event or a decoder callback, together with the      *)
(* React commit that follows it (the <video> element is mounted exactly    *)
(* when isCameraActive && !error).                                         *)
(*                                                                         *)
(* The decoding library (@zxing/library) is outside the repository.  It is *)
(* modelled by its contract: decodeFromVideoDevice attaches a continuous   *)
(* decode loop to a reader instance, reset() ends the loop and makes a     *)
(* pending decodeFromImage fail, and callbacks come only from a reader     *)
(* whose loop is attached.  The library's own handling of the video        *)
(* element's stream is not modelled.                                       *)
(*                                                                         *)
(* Objects carry no identity in the state: an object nothing can reach or  *)
(* act on any more is dropped, and a live media stream that no reachable   *)
(* element holds is counted in orphanStreams.                              *)
(***************************************************************************)
EXTENDS Integers, Sequences, FiniteSets, Bags, TLC

\* Bounds of the model.
MaxStarts == 2      \* startCamera invocations (button presses and timer retries)
MaxUploads == 1     \* handleImageUpload invocations that carry a file
MaxOverlappingUploads == 2   \* the same, where uploads overlap (SpecUploads)

\* JS null for strings, and for object references.
Null == "null"
NoRef == 0

\* The static roster (studentsData.js), as in the spec's scenario A.
StudentsData ==
  << [id |-> "S1", name |-> "Asha", branch |-> "CS", class |-> "A", attendance |-> "Absent"],
     [id |-> "S2", name |-> "Ravi", branch |-> "IT", class |-> "B", attendance |-> "Absent"] >>

\* Texts a decode can yield: the roster's ids and one text that is no id.
Codes == {"S1", "S2", "UNKNOWN"}

\* Per-frame errors the decoder reports.
ErrKinds == {"NotFoundException", "ChecksumException"}

NotFoundMessage == "Student not found for this barcode!"
ScanningErrorMessage == "Error during scanning. Make sure the barcode is clear."

VARIABLES
  heap,             \* student objects: reference -> record (objects are shared by all arrays)
  students,         \* App state: array of references
  scannedStudent,   \* App state: reference or NoRef
  scanMessage,      \* App state
  isScanning, error, isCameraActive, imageScanMessage,   \* BarcodeScanner state
  videoRef,         \* videoRef.current: <<>> for null, <<element>> for the mounted <video>
  detached,         \* bag of unmounted <video> elements whose loadedmetadata is still due
  orphanStreams,    \* number of live streams that videoRef.current.srcObject cannot reach
  codeReader,       \* codeReader.current
  discarded,        \* bag of replaced readers that still have a loop or a decode in progress
  pending,          \* bag of continuations in flight: enum, gum, timer, read
  image,            \* the hidden <img> element: load in progress, installed onload handler
  mounted,          \* the BarcodeScanner component is mounted
  starts, uploads,  \* counters for the bounds
  outcomes,         \* history: outcomes reported by uploads (a recordScan call from a
                    \* decoded image, or a failure report)
  lastOp,           \* history: the task that ran last, the text it passed to handleScan (or
                    \* Null), and whether the task before it passed the same text
  since             \* history: userStop - Stop Camera was pressed and neither Open Camera
                    \* nor an upload followed; stopCamera - stopCamera ran and startCamera
                    \* has not been invoked since; userStart - Open Camera was pressed
                    \* and neither Stop Camera, an upload nor an unmount followed

appVars == <<heap, students, scannedStudent, scanMessage>>
scannerVars == <<isScanning, error, isCameraActive, imageScanMessage>>
domVars == <<videoRef, detached, orphanStreams, codeReader, discarded, pending, image>>
vars == <<heap, students, scannedStudent, scanMessage,
          isScanning, error, isCameraActive, imageScanMessage,
          videoRef, detached, orphanStreams, codeReader, discarded, pending, image,
          mounted, starts, uploads, outcomes, lastOp, since>>

NoCallback == <<>>
NewElement == [srcObject |-> "none", listeners |-> <<>>, metaPending |-> FALSE]
NewReader == [loop |-> FALSE, onDetected |-> NoCallback, image |-> "none", imageCb |-> NoCallback]

One(x) == SetToBag({x})

Op(name, code) ==
  [name |-> name, code |-> code, rep |-> code # Null /\ lastOp.code = code]

\* The handleScan closure of the current App render: it captures `students`.
CurrentOnDetected == [students |-> students]

Init ==
  /\ heap = [r \in 1..Len(StudentsData) |-> StudentsData[r]]
  /\ students = [i \in 1..Len(StudentsData) |-> i]
  /\ scannedStudent = NoRef
  /\ scanMessage = "Ready to scan..."
  /\ isScanning = FALSE
  /\ error = Null
  /\ isCameraActive = FALSE
  /\ imageScanMessage = ""
  /\ videoRef = <<>>
  /\ detached = EmptyBag
  /\ orphanStreams = 0
  /\ codeReader = NewReader
  /\ discarded = EmptyBag
  /\ pending = EmptyBag
  /\ image = [loading |-> FALSE, onDetected |-> NoCallback]
  /\ mounted = TRUE
  /\ starts = 0
  /\ uploads = 0
  /\ outcomes = 0
  /\ lastOp = [name |-> "init", code |-> Null, rep |-> FALSE]
  /\ since = [userStop |-> FALSE, stopCamera |-> FALSE, userStart |-> FALSE]

----------------------------------------------------------------------------
\* App.jsx

\* students.findIndex(s => s.id === decodedText): 1-based, 0 for JS -1.
FindIndex(studs, decodedText) ==
  LET hits == {i \in 1..Len(studs) : heap[studs[i]].id = decodedText}
  IN IF hits = {} THEN 0 ELSE CHOOSE i \in hits : \A j \in hits : i <= j

\* Mutant: the matched student's attendance is never assigned.
HandleScan_NoMark(cl, decodedText) ==
  LET studentIndex == FindIndex(cl.students, decodedText)
  IN IF studentIndex # 0
       THEN /\ students' = cl.students
            /\ scannedStudent' = cl.students[studentIndex]
            /\ scanMessage' = "Scanned: " \o decodedText
            /\ UNCHANGED heap
       ELSE /\ scannedStudent' = NoRef
            /\ scanMessage' = NotFoundMessage
            /\ UNCHANGED <<heap, students>>

\* Mutant: the not-found branch forgets setScannedStudent(null).
HandleScan_KeepLast(cl, decodedText) ==
  LET studentIndex == FindIndex(cl.students, decodedText)
  IN IF studentIndex # 0
       THEN /\ heap' = [heap EXCEPT ![cl.students[studentIndex]].attendance = "Present"]
            /\ students' = cl.students
            /\ scannedStudent' = cl.students[studentIndex]
            /\ scanMessage' = "Scanned: " \o decodedText
       ELSE /\ scanMessage' = NotFoundMessage
            /\ UNCHANGED <<heap, students, scannedStudent>>

\* Mutant: the roster is rebuilt with the scanned student Present and every
\* other student Absent.
HandleScan_OnlyScanned(cl, decodedText) ==
  LET studentIndex == FindIndex(cl.students, decodedText)
  IN IF studentIndex # 0
       THEN /\ heap' = [r \in DOMAIN heap |->
                          [heap[r] EXCEPT !.attendance =
                             IF r = cl.students[studentIndex] THEN "Present" ELSE "Absent"]]
            /\ students' = cl.students
            /\ scannedStudent' = cl.students[studentIndex]
            /\ scanMessage' = "Scanned: " \o decodedText
       ELSE /\ scannedStudent' = NoRef
            /\ scanMessage' = NotFoundMessage
            /\ UNCHANGED <<heap, students>>

\* Mutant: a scan toggles the attendance instead of setting it.
HandleScan_Toggle(cl, decodedText) ==
  LET studentIndex == FindIndex(cl.students, decodedText)
  IN IF studentIndex # 0
       THEN /\ heap' = [heap EXCEPT ![cl.students[studentIndex]].attendance =
                          IF @ = "Present" THEN "Absent" ELSE "Present"]
            /\ students' = cl.students
            /\ scannedStudent' = cl.students[studentIndex]
            /\ scanMessage' = "Scanned: " \o decodedText
       ELSE /\ scannedStudent' = NoRef
            /\ scanMessage' = NotFoundMessage
            /\ UNCHANGED <<heap, students>>

\* Mutant: the new roster holds the matched student only.
HandleScan_OnlyMatched(cl, decodedText) ==
  LET studentIndex == FindIndex(cl.students, decodedText)
  IN IF studentIndex # 0
       THEN /\ heap' = [heap EXCEPT ![cl.students[studentIndex]].attendance = "Present"]
            /\ students' = <<cl.students[studentIndex]>>
            /\ scannedStudent' = cl.students[studentIndex]
            /\ scanMessage' = "Scanned: " \o decodedText
       ELSE /\ scannedStudent' = NoRef
            /\ scanMessage' = NotFoundMessage
            /\ UNCHANGED <<heap, students>>

\* handleScan run from a closure that captured the array cl.students.
HandleScan(cl, decodedText) ==
  LET studentIndex == FindIndex(cl.students, decodedText)
      updatedStudents == cl.students
  IN IF studentIndex # 0
       THEN /\ heap' = [heap EXCEPT ![updatedStudents[studentIndex]].attendance = "Present"]
            /\ students' = updatedStudents
            /\ scannedStudent' = updatedStudents[studentIndex]
            /\ scanMessage' = "Scanned: " \o decodedText
       ELSE /\ scannedStudent' = NoRef
            /\ scanMessage' = NotFoundMessage
            /\ UNCHANGED <<heap, students>>

----------------------------------------------------------------------------
\* BarcodeScanner.jsx

\* A state setter called with the value new: React drops the update when the
\* component is no longer mounted.
SetState(new, old) == IF mounted THEN new ELSE old

\* The commit after a task: <video> is rendered iff isCameraActive && !error
\* (and the component is mounted).
\* Mounting creates a new element.  Unmounting sets videoRef.current to null:
\* an element that held a live stream keeps it, out of stopCamera's reach.
\* v, det, orph are videoRef, detached and orphanStreams as the task left them.
Render(active, err, v, det, orph) ==
  IF mounted /\ active /\ err = Null
    THEN [ref |-> IF v = <<>> THEN <<NewElement>> ELSE v, det |-> det, orph |-> orph]
    ELSE IF v = <<>> \/ v[1].srcObject = "none"
           THEN [ref |-> <<>>, det |-> det, orph |-> orph]
           ELSE IF v[1].metaPending
                  THEN [ref |-> <<>>, det |-> det (+) One(v[1]), orph |-> orph]
                  ELSE [ref |-> <<>>, det |-> det, orph |-> orph + 1]

Commit(active, err, v, det, orph) ==
  LET r == Render(active, err, v, det, orph)
  IN videoRef' = r.ref /\ detached' = r.det /\ orphanStreams' = r.orph

\* reader.reset(): the continuous loop ends, a decode in progress will fail.
Reset(rd) ==
  [rd EXCEPT !.loop = FALSE,
             !.image = IF @ = "pending" THEN "cancelled" ELSE @]

\* A reader that codeReader.current no longer names stays in the state while
\* it can still call back.
Discard(rd) ==
  IF rd.loop \/ rd.image # "none" THEN discarded (+) One(rd) ELSE discarded

\* Mutant: startCamera replaces the reader without resetting the old one.
StartCamera_NoReset(cl, rest) ==
  /\ starts < MaxStarts
  /\ starts' = starts + 1
  /\ error' = SetState(Null, error)
  /\ imageScanMessage' = SetState("", imageScanMessage)
  /\ isScanning' = SetState(FALSE, isScanning)
  /\ isCameraActive' = SetState(TRUE, isCameraActive)
  /\ discarded' = Discard(codeReader)
  /\ codeReader' = NewReader
  /\ pending' = rest (+) One([kind |-> "enum", onDetected |-> cl])
  /\ Commit(isCameraActive', error', videoRef, detached, orphanStreams)
  /\ UNCHANGED <<appVars, image, mounted, uploads, outcomes>>

\* startCamera, up to its first await; rest is what stays in flight.
StartCamera(cl, rest) ==
  /\ starts < MaxStarts
  /\ starts' = starts + 1
  /\ error' = SetState(Null, error)
  /\ imageScanMessage' = SetState("", imageScanMessage)
  /\ isScanning' = SetState(FALSE, isScanning)
  /\ isCameraActive' = SetState(TRUE, isCameraActive)
  /\ discarded' = Discard(Reset(codeReader))
  /\ codeReader' = NewReader
  /\ pending' = rest (+) One([kind |-> "enum", onDetected |-> cl])
  /\ Commit(isCameraActive', error', videoRef, detached, orphanStreams)
  /\ UNCHANGED <<appVars, image, mounted, uploads, outcomes>>

\* The Open Camera button, shown while !isCameraActive.
ClickOpenCamera ==
  /\ mounted
  /\ ~isCameraActive
  /\ StartCamera(CurrentOnDetected, pending)
  /\ lastOp' = Op("startCamera", Null)
  /\ since' = [userStop |-> FALSE, stopCamera |-> FALSE, userStart |-> TRUE]

\* setTimeout(startCamera, 100) firing: the same closure runs again.
RetryTimer ==
  \E t \in BagToSet(pending) :
    /\ t.kind = "timer"
    /\ StartCamera(t.onDetected, pending (-) One(t))
    /\ lastOp' = Op("retryStartCamera", Null)
    /\ since' = [since EXCEPT !.stopCamera = FALSE]

\* listVideoInputDevices settles: devices, an empty list, or a rejection.
ListDevicesDone ==
  \E t \in BagToSet(pending), outcome \in {"devices", "empty", "throw"} :
    /\ t.kind = "enum"
    /\ lastOp' = Op("listDevices:" \o outcome, Null)
    /\ IF outcome = "devices"
         THEN IF videoRef # <<>>
                THEN /\ videoRef' = [videoRef EXCEPT ![1].listeners = Append(@, t.onDetected)]
                     /\ pending' = (pending (-) One(t)) (+) One([t EXCEPT !.kind = "gum"])
                     /\ UNCHANGED <<error, isCameraActive, detached, orphanStreams>>
                ELSE /\ pending' = (pending (-) One(t)) (+) One([t EXCEPT !.kind = "timer"])
                     /\ UNCHANGED <<error, isCameraActive, videoRef, detached, orphanStreams>>
         ELSE /\ error' = SetState(IF outcome = "empty"
                                     THEN "No video input devices found."
                                     ELSE "Error accessing camera. Please ensure permissions are granted.",
                                   error)
              /\ isCameraActive' = SetState(FALSE, isCameraActive)
              /\ pending' = pending (-) One(t)
              /\ Commit(isCameraActive', error', videoRef, detached, orphanStreams)
    /\ UNCHANGED <<appVars, isScanning, imageScanMessage, codeReader, discarded,
                   image, mounted, starts, uploads, outcomes, since>>

\* navigator.mediaDevices.getUserMedia settles.  The .then assigns the stream
\* to videoRef.current.srcObject (the stream it held before stays live); with
\* videoRef.current null it throws, and the .catch that follows it runs as
\* for a rejection, the granted stream staying live.
GetUserMediaDone ==
  \E t \in BagToSet(pending), granted \in BOOLEAN :
    /\ t.kind = "gum"
    /\ pending' = pending (-) One(t)
    /\ lastOp' = Op(IF granted THEN "getUserMedia:stream" ELSE "getUserMedia:rejected", Null)
    /\ IF granted /\ videoRef # <<>>
         THEN /\ videoRef' = [videoRef EXCEPT ![1].srcObject = "live",
                                              ![1].metaPending = TRUE]
              /\ orphanStreams' = orphanStreams +
                                    (IF videoRef[1].srcObject = "live" THEN 1 ELSE 0)
              /\ UNCHANGED <<error, isCameraActive, detached>>
         ELSE /\ error' = SetState("Could not access camera. Please check permissions.", error)
              /\ isCameraActive' = SetState(FALSE, isCameraActive)
              /\ Commit(isCameraActive', error', videoRef, detached,
                        orphanStreams + (IF granted THEN 1 ELSE 0))
    /\ UNCHANGED <<appVars, isScanning, imageScanMessage, codeReader, discarded,
                   image, mounted, starts, uploads, outcomes, since>>

\* onVideoReady for the listeners ls of one element, run in order.  Each one,
\* when videoRef.current is set, removes itself from videoRef.current (it is
\* registered there only when the event's element is videoRef.current: own),
\* attaches the decode loop of codeReader.current with its own callback and
\* sets isScanning.
OnVideoReady(ls, own) ==
  IF videoRef # <<>> /\ Len(ls) > 0
    THEN /\ videoRef' = IF own
                          THEN [videoRef EXCEPT ![1].listeners = <<>>, ![1].metaPending = FALSE]
                          ELSE videoRef
         /\ codeReader' = [codeReader EXCEPT !.loop = TRUE, !.onDetected = ls[Len(ls)]]
         /\ isScanning' = SetState(TRUE, isScanning)
    ELSE /\ videoRef' = IF own THEN [videoRef EXCEPT ![1].metaPending = FALSE] ELSE videoRef
         /\ UNCHANGED <<codeReader, isScanning>>

\* 'loadedmetadata' on the mounted element, after a stream was assigned to it.
LoadedMetadata ==
  /\ videoRef # <<>>
  /\ videoRef[1].metaPending
  /\ lastOp' = Op("loadedmetadata", Null)
  /\ OnVideoReady(videoRef[1].listeners, TRUE)
  /\ UNCHANGED <<appVars, error, isCameraActive, imageScanMessage, detached, orphanStreams,
                 discarded, pending, image, mounted, starts, uploads, outcomes, since>>

\* 'loadedmetadata' on an element that was unmounted with its stream attached.
LoadedMetadataDetached ==
  \E el \in BagToSet(detached) :
    /\ lastOp' = Op("loadedmetadata:detached", Null)
    /\ OnVideoReady(el.listeners, FALSE)
    /\ detached' = detached (-) One(el)
    /\ orphanStreams' = orphanStreams + 1
    /\ UNCHANGED <<appVars, error, isCameraActive, imageScanMessage,
                   discarded, pending, image, mounted, starts, uploads, outcomes, since>>

\* Mutant: the filter looks for a text no decoder error carries.
IsNotFound_WrongName(err) == err = "NotFound"

\* err.toString().includes('NotFoundException')
IsNotFound(err) == err = "NotFoundException"

\* Mutant: the callback handles errors only and never passes a result on.
DecodeCallback_DropsResult(cl, result, err) ==
  /\ UNCHANGED appVars
  /\ IF err # Null /\ ~IsNotFound(err)
       THEN error' = SetState(ScanningErrorMessage, error)
       ELSE UNCHANGED error

\* The callback given to decodeFromVideoDevice, called with (result, err).
DecodeCallback(cl, result, err) ==
  /\ IF result # Null
       THEN HandleScan(cl, result)
       ELSE UNCHANGED appVars
  /\ IF err # Null /\ ~IsNotFound(err)
       THEN error' = SetState(ScanningErrorMessage, error)
       ELSE UNCHANGED error

\* The readers that exist and can still act.
Readers == {codeReader} \cup BagToSet(discarded)

\* One pass of a reader's continuous decode loop: a result or an error.
Frame ==
  \E rd \in Readers, out \in Codes \cup ErrKinds :
    /\ rd.loop
    /\ IF out \in Codes
         THEN /\ DecodeCallback(rd.onDetected, out, Null)
              /\ lastOp' = Op("frame:result", out)
         ELSE /\ DecodeCallback(rd.onDetected, Null, out)
              /\ lastOp' = Op("frame:" \o out, Null)
    /\ Commit(isCameraActive, error', videoRef, detached, orphanStreams)
    /\ UNCHANGED <<isScanning, isCameraActive, imageScanMessage, codeReader, discarded,
                   pending, image, mounted, starts, uploads, outcomes, since>>

\* Mutant: stopCamera without codeReader.current.reset().
StopCamera_NoReset ==
  /\ UNCHANGED codeReader
  /\ isScanning' = FALSE
  /\ isCameraActive' = FALSE
  /\ error' = Null
  /\ Commit(FALSE, Null,
            IF videoRef # <<>> /\ videoRef[1].srcObject # "none"
              THEN [videoRef EXCEPT ![1].srcObject = "none", ![1].metaPending = FALSE]
              ELSE videoRef,
            detached, orphanStreams)

\* stopCamera: when videoRef.current is set and holds a stream, the stream's
\* tracks are stopped and srcObject is cleared; codeReader.current is reset;
\* isScanning, isCameraActive and error are cleared (imageScanMessage is left
\* to the caller, which may set it again).
StopCamera ==
  /\ codeReader' = Reset(codeReader)
  /\ isScanning' = FALSE
  /\ isCameraActive' = FALSE
  /\ error' = Null
  /\ Commit(FALSE, Null,
            IF videoRef # <<>> /\ videoRef[1].srcObject # "none"
              THEN [videoRef EXCEPT ![1].srcObject = "none", ![1].metaPending = FALSE]
              ELSE videoRef,
            detached, orphanStreams)

\* The Stop Camera button, shown while isCameraActive.
ClickStopCamera ==
  /\ mounted
  /\ isCameraActive
  /\ StopCamera
  /\ imageScanMessage' = ""
  /\ lastOp' = Op("stopCamera", Null)
  /\ since' = [userStop |-> TRUE, stopCamera |-> TRUE, userStart |-> FALSE]
  /\ UNCHANGED <<appVars, discarded, pending, image, mounted, starts, uploads, outcomes>>

\* handleImageUpload: the file input's change event, with or without a file.
HandleImageUpload(maxUploads) ==
  \E hasFile \in BOOLEAN :
    /\ mounted
    /\ StopCamera
    /\ IF hasFile
         THEN /\ uploads < maxUploads
              /\ uploads' = uploads + 1
              /\ imageScanMessage' = "Processing image..."
              /\ pending' = pending (+) One([kind |-> "read", onDetected |-> CurrentOnDetected])
              /\ lastOp' = Op("upload", Null)
         ELSE /\ imageScanMessage' = "No file selected."
              /\ lastOp' = Op("upload:nofile", Null)
              /\ UNCHANGED <<uploads, pending>>
    /\ since' = [userStop |-> FALSE, stopCamera |-> TRUE, userStart |-> FALSE]
    /\ UNCHANGED <<appVars, discarded, image, mounted, starts, outcomes>>

\* reader.onload: the image's src is set and its onload/onerror are installed,
\* replacing the handlers and the load of an earlier upload.  After an
\* unmount imageRef.current is null and the handler throws at its first line.
FileReaderLoad ==
  \E t \in BagToSet(pending) :
    /\ t.kind = "read"
    /\ pending' = pending (-) One(t)
    /\ image' = IF mounted THEN [loading |-> TRUE, onDetected |-> t.onDetected] ELSE image
    /\ lastOp' = Op("fileRead", Null)
    /\ UNCHANGED <<appVars, scannerVars, videoRef, detached, orphanStreams, codeReader,
                   discarded, mounted, starts, uploads, outcomes, since>>

\* imageRef.current.onload: the reader is reset and replaced, and
\* decodeFromImage is awaited on the new reader.  After an unmount
\* imageRef.current is null: decodeFromImage throws at once and the catch
\* block's state updates are dropped.
ImageLoad ==
  /\ image.loading
  /\ image' = [image EXCEPT !.loading = FALSE]
  /\ discarded' = Discard(Reset(codeReader))
  /\ codeReader' = IF mounted
                     THEN [NewReader EXCEPT !.image = "pending", !.imageCb = image.onDetected]
                     ELSE NewReader
  /\ lastOp' = Op("imageLoad", Null)
  /\ UNCHANGED <<appVars, scannerVars, videoRef, detached, orphanStreams, pending,
                 mounted, starts, uploads, outcomes, since>>

\* imageRef.current.onerror
ImageError ==
  /\ image.loading
  /\ image' = [image EXCEPT !.loading = FALSE]
  /\ imageScanMessage' = SetState("Error loading image.", imageScanMessage)
  /\ error' = SetState("Could not load image file.", error)
  /\ outcomes' = outcomes + 1
  /\ Commit(isCameraActive, error', videoRef, detached, orphanStreams)
  /\ lastOp' = Op("imageError", Null)
  /\ UNCHANGED <<appVars, isScanning, isCameraActive, codeReader, discarded,
                 pending, mounted, starts, uploads, since>>

\* The reader rd once its decodeFromImage has settled.
Settled(rd) == [rd EXCEPT !.image = "none", !.imageCb = NoCallback]

\* decodeFromImage settles on reader rd: a text, or a failure.  A reader that
\* was reset while decoding can only fail.
ImageDecodeDone ==
  \E rd \in Readers, out \in Codes \cup {Null} :
    /\ rd.image # "none"
    /\ out # Null => rd.image = "pending"
    /\ IF rd = codeReader
         THEN codeReader' = Settled(rd) /\ UNCHANGED discarded
         ELSE /\ discarded' = (discarded (-) One(rd)) (+)
                                (IF rd.loop THEN One(Settled(rd)) ELSE EmptyBag)
              /\ UNCHANGED codeReader
    /\ IF out # Null
         THEN /\ HandleScan(rd.imageCb, out)
              /\ imageScanMessage' = SetState("Barcode scanned from image successfully!",
                                              imageScanMessage)
              /\ lastOp' = Op("image:result", out)
              /\ UNCHANGED error
         ELSE /\ imageScanMessage' = SetState("No barcode found in image or error processing.",
                                              imageScanMessage)
              /\ error' = SetState("Could not scan barcode from image. Try another image or format.",
                                   error)
              /\ lastOp' = Op("image:failed", Null)
              /\ UNCHANGED appVars
    /\ outcomes' = outcomes + 1
    /\ Commit(isCameraActive, error', videoRef, detached, orphanStreams)
    /\ UNCHANGED <<isScanning, isCameraActive, pending, image, mounted, starts, uploads, since>>

\* The component is removed: React sets the element refs to null and runs the
\* effect's cleanup, stopCamera.  Whether the cleanup runs before or after
\* the refs are cleared depends on the React version (refsCleared).  The
\* values stopCamera sets are the last the component's state takes: every
\* later update is dropped.
Unmount ==
  \E refsCleared \in BOOLEAN :
    LET reach == ~refsCleared /\ videoRef # <<>> /\ videoRef[1].srcObject # "none"
        v == IF reach
               THEN [videoRef EXCEPT ![1].srcObject = "none", ![1].metaPending = FALSE]
               ELSE videoRef
        r == Render(FALSE, Null, v, detached, orphanStreams)
    IN /\ mounted
       /\ mounted' = FALSE
       /\ codeReader' = Reset(codeReader)
       /\ isScanning' = FALSE
       /\ isCameraActive' = FALSE
       /\ error' = Null
       /\ imageScanMessage' = ""
       /\ videoRef' = r.ref
       /\ detached' = r.det
       /\ orphanStreams' = r.orph
       /\ lastOp' = Op("unmount", Null)
       /\ since' = [since EXCEPT !.stopCamera = TRUE, !.userStart = FALSE]
       /\ UNCHANGED <<appVars, discarded, pending, image, starts, uploads, outcomes>>

Next ==
  \/ ClickOpenCamera
  \/ RetryTimer
  \/ ListDevicesDone
  \/ GetUserMediaDone
  \/ LoadedMetadata
  \/ LoadedMetadataDetached
  \/ Frame
  \/ ClickStopCamera
  \/ HandleImageUpload(MaxUploads)
  \/ FileReaderLoad
  \/ ImageLoad
  \/ ImageError
  \/ ImageDecodeDone
  \/ Unmount

Spec == Init /\ [][Next]_vars

\* The browser runs every queued task and the environment answers every
\* request: a pending timer fires, a pending promise settles, a pending
\* load event is delivered.  Nothing obliges the user to act or the decoder
\* to deliver frames.
FairSpec ==
  /\ Spec
  /\ WF_vars(RetryTimer)
  /\ WF_vars(ListDevicesDone)
  /\ WF_vars(GetUserMediaDone)
  /\ WF_vars(LoadedMetadata)
  /\ WF_vars(LoadedMetadataDetached)
  /\ WF_vars(FileReaderLoad)
  /\ WF_vars(ImageLoad \/ ImageError)
  /\ WF_vars(ImageDecodeDone)

\* The same program with room for a second upload while the first is in flight.
NextUploads ==
  \/ ClickOpenCamera
  \/ RetryTimer
  \/ ListDevicesDone
  \/ GetUserMediaDone
  \/ LoadedMetadata
  \/ LoadedMetadataDetached
  \/ Frame
  \/ ClickStopCamera
  \/ HandleImageUpload(MaxOverlappingUploads)
  \/ FileReaderLoad
  \/ ImageLoad
  \/ ImageError
  \/ ImageDecodeDone
  \/ Unmount

SpecUploads == Init /\ [][NextUploads]_vars

----------------------------------------------------------------------------
\* Notions the properties use.

RosterIds == {heap[students[i]].id : i \in 1..Len(students)}

\* Live media streams: attached to the mounted element, attached to an
\* unmounted element, or held by nothing.
LiveStreams ==
  orphanStreams + BagCardinality(detached) +
    (IF videoRef # <<>> /\ videoRef[1].srcObject = "live" THEN 1 ELSE 0)

\* A camera session is active: a stream is attached to the video element or
\* a continuous decode loop is running.
CameraSessionActive ==
  \/ videoRef # <<>> /\ videoRef[1].srcObject = "live"
  \/ \E rd \in Readers : rd.loop

\* An image decode is active: the file is being read, the image is loading,
\* or decodeFromImage has not settled.
ImageDecodeActive ==
  \/ \E t \in BagToSet(pending) : t.kind = "read"
  \/ image.loading
  \/ \E rd \in Readers : rd.image # "none"

FrameOps == {"frame:result", "frame:NotFoundException", "frame:ChecksumException"}

\* The tasks in which a start attempt fails: no device, enumeration throws,
\* the media request is rejected.
FailOps == {"listDevices:empty", "listDevices:throw", "getUserMedia:rejected"}

\* The session states the start of a camera session is to settle in.
Scanning == isCameraActive /\ isScanning /\ codeReader.loop
ErrorInactive == error # Null /\ ~isCameraActive

\* The retry timer is pending and the model's bound on startCamera
\* invocations keeps it from firing.
RetryCutOff ==
  starts = MaxStarts /\ \E t \in BagToSet(pending) : t.kind = "timer"

\* A start attempt is in flight: its enumeration, its media request or its
\* retry timer is pending.
StartInFlight == \E t \in BagToSet(pending) : t.kind \in {"enum", "gum", "timer"}

----------------------------------------------------------------------------
\* Properties.

\* C1: for every student S of the roster, a handleScan(S.id) from any
\* reachable state (from any closure: current or captured earlier) ends
\* with S.attendance = "Present", scannedStudent = S and
\* scanMessage = "Scanned: <S.id>".
C1_ScanMarksPresent ==
  \A i \in 1..Len(students) :
    lastOp.code = heap[students[i]].id =>
      /\ heap[students[i]].attendance = "Present"
      /\ scannedStudent = students[i]
      /\ scanMessage = "Scanned: " \o heap[students[i]].id

\* A camera frame delivered S2 after S1 had been marked Present.
C1_Witness ==
  /\ lastOp.name = "frame:result"
  /\ lastOp.code = "S2"
  /\ heap[1].attendance = "Present"
  /\ scannedStudent = 2

\* C2: a handleScan(C) with C no roster id leaves heap and students
\* unchanged, sets scannedStudent to null and leaves scanMessage equal to the
\* not-found message, whatever was last scanned before.
C2_NotFoundLeavesRoster ==
  [][(lastOp'.code # Null /\ lastOp'.code \notin RosterIds) =>
       /\ heap' = heap
       /\ students' = students
       /\ scannedStudent' = NoRef
       /\ scanMessage' = NotFoundMessage]_vars

\* An unknown code was scanned after a student had been scanned.
C2_Witness ==
  /\ lastOp.code = "UNKNOWN"
  /\ ~lastOp.rep
  /\ heap[1].attendance = "Present"
  /\ scannedStudent = NoRef
  /\ scanMessage = NotFoundMessage

\* C3: attendance is monotonic: no step of any behaviour takes a student
\* from "Present" to anything else, also when handleScan runs from a closure
\* captured before the latest roster update.
C3_AttendanceMonotonic ==
  [][\A r \in DOMAIN heap :
       heap[r].attendance = "Present" => heap'[r].attendance = "Present"]_vars

\* The only camera session delivers S2 from the closure it captured at the
\* button press, after the same session had marked S1 Present.
C3_Witness ==
  /\ starts = 1
  /\ uploads = 0
  /\ lastOp.name = "frame:result"
  /\ lastOp.code = "S2"
  /\ heap[1].attendance = "Present"
  /\ heap[2].attendance = "Present"

\* C4: handleScan(S.id) run right after handleScan(S.id) changes nothing of
\* the roster, the last-scanned student and the status message.
C4_ScanIdempotent ==
  [][(lastOp'.rep /\ lastOp'.code \in RosterIds) => UNCHANGED appVars]_vars

\* S1 was scanned twice in a row, the second time by a camera frame.
C4_Witness ==
  /\ lastOp.rep
  /\ lastOp.code = "S1"
  /\ lastOp.name = "frame:result"

\* C5 (as claimed): a camera session and an image decode are never active
\* at the same time.
C5_SingleScanSource == ~(CameraSessionActive /\ ImageDecodeActive)

\* C6 (as claimed): an upload that starts while the camera session is active
\* and scanning, its stream the only live one, leaves no stream live, the
\* reader's loop ended and the camera marked inactive.
C6_UploadReleasesCamera ==
  [][(lastOp'.name \in {"upload", "upload:nofile"}
        /\ isCameraActive /\ isScanning /\ LiveStreams = 1) =>
       /\ LiveStreams' = 0
       /\ \A rd \in Readers' : ~rd.loop
       /\ ~isCameraActive']_vars

\* C7 (as claimed): from the press of Stop Camera until the next press of
\* Open Camera or the next upload, the camera is not marked active, isScanning
\* is false and no decode loop is attached.
C7_StopStaysIdle ==
  since.userStop =>
    /\ ~isCameraActive
    /\ ~isScanning
    /\ \A rd \in Readers : ~rd.loop

\* C8: from a run of stopCamera until startCamera is next invoked, no reader
\* has a decode loop attached and no frame callback runs (so no frame result
\* reaches onDetected and no frame error is set).
C8_NoFrameAfterStop ==
  since.stopCamera =>
    /\ \A rd \in Readers : ~rd.loop
    /\ lastOp.name \notin FrameOps

\* Stop Camera was pressed on the only session, which had delivered a result.
C8_Witness ==
  /\ since.stopCamera
  /\ lastOp.name = "stopCamera"
  /\ starts = 1
  /\ uploads = 0
  /\ scannedStudent # NoRef

\* C9: a frame callback carrying no result and a NotFoundException changes
\* nothing: error, the App's state, isCameraActive, isScanning, the video
\* element and the reader stay as they are.
C9_NotFoundSwallowed ==
  [][lastOp'.name = "frame:NotFoundException" =>
       UNCHANGED <<appVars, scannerVars, domVars>>]_vars

\* A not-found frame arrived in a scanning session with no error shown.
C9_Witness ==
  /\ lastOp.name = "frame:NotFoundException"
  /\ isCameraActive
  /\ isScanning
  /\ error = Null
  /\ codeReader.loop

\* C10 (as claimed): a frame error other than not-found in a scanning session
\* sets the scanning error and keeps the camera active, scanning, its loop
\* and its streams; and a press of Stop Camera while that error is shown
\* leaves no stream live.
C10_FrameErrorKeepsSession ==
  [][/\ (lastOp'.name = "frame:ChecksumException"
           /\ isCameraActive /\ isScanning /\ error = Null) =>
          /\ error' = ScanningErrorMessage
          /\ isCameraActive'
          /\ isScanning'
          /\ codeReader'.loop
          /\ LiveStreams' = LiveStreams
     /\ (lastOp'.name = "stopCamera" /\ error = ScanningErrorMessage /\ LiveStreams = 1) =>
          LiveStreams' = 0]_vars

\* C11 (as claimed): when a start attempt of the mounted scanner has just
\* failed (no device, enumeration threw, media request rejected), an error
\* message is set, the camera is marked inactive, isScanning is false and no
\* decode loop is attached.
C11_StartFailureTerminal ==
  (mounted /\ lastOp.name \in FailOps) =>
    /\ error # Null
    /\ ~isCameraActive
    /\ ~isScanning
    /\ \A rd \in Readers : ~rd.loop

\* C12: a frame callback that carries a decoded text while the session is
\* Scanning passes exactly that text to handleScan, once (the roster entry
\* with that id is Present afterwards and the status message is the one
\* handleScan leaves for that text), and does not stop the session:
\* isCameraActive, isScanning, error, the video element with its stream and
\* the reader with its loop are as before, so the next frame is handled the
\* same way.
C12_DecodeRecordedSessionKept ==
  [][(lastOp'.name = "frame:result" /\ isCameraActive /\ isScanning /\ codeReader.loop) =>
       /\ lastOp'.code \in Codes
       /\ \A r \in DOMAIN heap :
            heap[r].id = lastOp'.code => heap'[r].attendance = "Present"
       /\ scanMessage' = IF lastOp'.code \in RosterIds
                           THEN "Scanned: " \o lastOp'.code
                           ELSE NotFoundMessage
       /\ scannedStudent' # NoRef <=> lastOp'.code \in RosterIds
       /\ UNCHANGED <<scannerVars, domVars>>
       /\ codeReader'.loop]_vars

\* Two successive decodes in one session, S1 and then S2, both recorded, and
\* the session is still scanning.
C12_Witness ==
  /\ lastOp.name = "frame:result"
  /\ lastOp.code = "S2"
  /\ heap[1].attendance = "Present"
  /\ heap[2].attendance = "Present"
  /\ starts = 1
  /\ isCameraActive
  /\ isScanning
  /\ codeReader.loop
  /\ LiveStreams = 1

\* C13 (as claimed): once no upload of the mounted scanner is in progress any
\* more (no file read pending, no image load pending, no decodeFromImage
\* unsettled), every upload that carried a file has reported exactly one
\* outcome, also when uploads overlapped.
C13_OneOutcomePerUpload ==
  (mounted /\ ~ImageDecodeActive) => outcomes = uploads

\* C14 (as claimed): after a press of Open Camera the session eventually is
\* Scanning, or shows an error with the camera marked inactive, unless a
\* stop, an upload or an unmount intervenes (or the model's bound cuts a
\* retry off).
C14_StartSettles ==
  (lastOp.name = "startCamera") ~>
    (Scanning \/ ErrorInactive \/ ~since.userStart \/ RetryCutOff)

\* C15 (as claimed), for an unmount with getUserMedia pending: when the
\* media request is granted after the scanner was unmounted, no media stream
\* is live and no decode loop is attached.
C15_UnmountReleasesCamera ==
  (~mounted /\ lastOp.name = "getUserMedia:stream") =>
    /\ LiveStreams = 0
    /\ \A rd \in Readers : ~rd.loop

\* C16: a reader that codeReader.current no longer names has no decode loop
\* attached and no image decode that can still succeed: it was reset before
\* it was replaced.  So at most one reader has an active decode, it is the
\* current one, and only the current one can deliver a result.
C16_OnlyCurrentReaderActive ==
  \A rd \in BagToSet(discarded) : ~rd.loop /\ rd.image # "pending"

\* Open Camera was pressed while an uploaded image was being decoded: the
\* reader that was decoding it is discarded with its decode cancelled, and
\* the current reader is a fresh one.
C16_Witness ==
  /\ lastOp.name = "startCamera"
  /\ codeReader = NewReader
  /\ \E rd \in BagToSet(discarded) : rd.image = "cancelled"

\* C17: no step changes the roster's length or order or a student's id,
\* name, branch or class; a step that does not call handleScan leaves the
\* roster, scannedStudent and scanMessage unchanged; and a step that calls
\* handleScan with a text changes the attendance of no student whose id is
\* not that text.
C17_RosterFrame ==
  [][/\ students' = students
     /\ DOMAIN heap' = DOMAIN heap
     /\ \A r \in DOMAIN heap :
          heap'[r] = [heap[r] EXCEPT !.attendance = heap'[r].attendance]
     /\ lastOp'.code = Null => UNCHANGED appVars
     /\ lastOp'.code # Null =>
          \A r \in DOMAIN heap : heap[r].id # lastOp'.code => heap'[r] = heap[r]]_vars

\* An uploaded image delivered S2: S2 is Present, S1 is still Absent and the
\* roster still has both students in order.
C17_Witness ==
  /\ lastOp.name = "image:result"
  /\ lastOp.code = "S2"
  /\ heap[2].attendance = "Present"
  /\ heap[1].attendance = "Absent"
  /\ students = <<1, 2>>

\* C18 (as claimed): in every reachable state isScanning implies
\* isCameraActive.
C18_ScanningImpliesActive == isScanning => isCameraActive

\* C19 (as claimed): while the scanner is mounted, whenever the camera is
\* marked inactive and no start attempt is in flight, no media stream is
\* live.
C19_NoLeakedStream ==
  (mounted /\ ~isCameraActive /\ ~StartInFlight) => LiveStreams = 0

====
